---------------------------- MODULE Spec2Model ----------------------------
(***************************************************************************)
(* A state-machine model of lathe_gears.py: the change-gear search for the *)
(* MW210V lathe.  The script reads its configuration, optionally checks a  *)
(* single gear set (-c) and exits, or else enumerates every placement of   *)
(* 3, 4 and 5 gears of the inventory, keeps those that fit the lathe,      *)
(* sorts and deduplicates them and scans the result against the target     *)
(* pitches.  A second script, tpi_box_gears.py, searches the gear sets of  *)
(* a TPI box in three nested loops; it is modelled at the end of the       *)
(* module, on the variable tpi_box, and runs under TpiSpec.                *)
(*                                                                         *)
(* Numbers.  Pitches and targets are Python floats; they are modelled as   *)
(* exact fractions <<numerator, denominator>> in lowest terms, so equality *)
(* and order are those of the exact values.  A standard deviation is       *)
(* represented by its square (the sample variance, a fraction): squaring   *)
(* preserves order and equality of non-negative numbers, and the code only *)
(* compares standard deviations.                                           *)
(***************************************************************************)
EXTENDS Integers, Sequences, FiniteSets, TLC

VARIABLES
    pc,                  \* position of the script
    gears_available,     \* inventory, in the order given
    pitches,             \* target list (sorted at line 451, popped from the front)
    pitch_unit, leadscrew_unit,
    spindle_teeth, spindle_diameter, leadscrew_pitch, leadscrew_diameter,
    max_centers, min_out_dim, gear_clearance,
    output_format,
    args_check,          \* the -c argument: NoCheck, or the comma-separated positions
    all_sets, counter, perms,
    fitting_sets, total_fitting_sets,
    target, zero_error_exists, i,
    target_feedrates,    \* the 'Target feedrates' line of the output (line 455)
    out,                 \* records published by the search loop, in order
    big_and_small,       \* the extremes report
    check_set, fits,     \* check_gear_set: the set with its pitch, the verdict
    error,               \* the exception that ended the run, "" when none
    tpi_box              \* tpi_box_gears.py: its position and its globals

vars == <<pc, gears_available, pitches, pitch_unit, leadscrew_unit,
          spindle_teeth, spindle_diameter, leadscrew_pitch, leadscrew_diameter,
          max_centers, min_out_dim, gear_clearance, output_format, args_check,
          all_sets, counter, perms, fitting_sets, total_fitting_sets,
          target, zero_error_exists, i, target_feedrates, out, big_and_small,
          check_set, fits, error, tpi_box>>

----------------------------------------------------------------------------
(* Exact fractions.                                                        *)

RECURSIVE GCD(_, _)
GCD(a, b) == IF b = 0 THEN a ELSE GCD(b, a % b)

Abs(x) == IF x < 0 THEN -x ELSE x

\* n/d in lowest terms with a positive denominator (d # 0).
Frac(n, d) ==
    LET g == GCD(Abs(n), Abs(d))
        s == IF d < 0 THEN -1 ELSE 1
    IN  <<(s * n) \div g, (s * d) \div g>>

FracLess(x, y) == x[1] * y[2] < y[1] * x[2]

RECURSIVE Sum(_)
Sum(item) == IF item = <<>> THEN 0 ELSE Head(item) + Sum(Tail(item))

RECURSIVE SumSq(_)
SumSq(item) == IF item = <<>> THEN 0 ELSE Head(item) * Head(item) + SumSq(Tail(item))

RECURSIVE Factorial(_)
Factorial(n) == IF n <= 0 THEN 1 ELSE n * Factorial(n - 1)

\* math.prod(range(n, n-p, -1)): n * (n-1) * ... * (n-p+1).
RECURSIVE ProdRange(_, _)
ProdRange(n, p) == IF p <= 0 THEN 1 ELSE n * ProdRange(n - 1, p - 1)

\* statistics.stdev, represented by its square: the sample variance
\* (n*sum(x^2) - sum(x)^2) / (n*(n-1)).
stdev(xs) ==
    LET n == Len(xs)
    IN  Frac(n * SumSq(xs) - Sum(xs) * Sum(xs), n * (n - 1))


----------------------------------------------------------------------------
(* Functions of lathe_gears.py.                                            *)

\* How many possible permutations of the gear combinations exist (line 61).
RECURSIVE PermTotal(_, _)
PermTotal(n, ps) ==
    IF ps = <<>> THEN 0
    ELSE ProdRange(n, Head(ps)) * Factorial(Head(ps)) + PermTotal(n, Tail(ps))

possible_permutations(n) == PermTotal(n, <<3, 4, 4, 5>>)

\* itertools.combinations(gears, r), as index tuples in the order it yields them.
RECURSIVE Flatten(_)
Flatten(ss) ==
    IF ss = <<>> THEN <<>>
    ELSE IF Len(ss) = 1 THEN ss[1]
    ELSE LET half == Len(ss) \div 2
         IN  Flatten(SubSeq(ss, 1, half)) \o Flatten(SubSeq(ss, half + 1, Len(ss)))

RECURSIVE CombIdx(_, _, _)
CombIdx(lo, n, r) ==
    IF r = 0 THEN << <<>> >>
    ELSE IF lo > n - r + 1 THEN <<>>
    ELSE LET rest == CombIdx(lo + 1, n, r - 1)
         IN  [k \in 1..Len(rest) |-> <<lo>> \o rest[k]] \o CombIdx(lo + 1, n, r)

combinations(gears, r) ==
    LET idx == CombIdx(1, Len(gears), r)
    IN  [k \in 1..Len(idx) |-> [j \in 1..r |-> gears[idx[k][j]]]]

\* Generate all possible combinations of 3, 4 and 5 gears, in a single list.
all_possible_sets(gears) ==
    combinations(gears, 3) \o combinations(gears, 4) \o combinations(gears, 5)

\* itertools.permutations(s): every ordering, by position, in lexicographic
\* order of the positions.
Without(s, k) == [j \in 1..(Len(s) - 1) |-> IF j < k THEN s[j] ELSE s[j + 1]]

RECURSIVE permutations(_)
permutations(s) ==
    IF Len(s) <= 1 THEN <<s>>
    ELSE Flatten([k \in 1..Len(s) |->
            LET sub == permutations(Without(s, k))
            IN  [j \in 1..Len(sub) |-> <<s[k]>> \o sub[j]]])

\* A reach test that also fails at equality (<= for <).
check_reach_fit_strict(item) ==
    IF ~FracLess(Frac(min_out_dim, 1), Frac(Sum(item), 2)) THEN FALSE ELSE TRUE

\* Check linear fit ('A' gear reaches Spindle gear): sum(item)/2 < min_out_dim fails.
check_reach_fit(item) ==
    IF FracLess(Frac(Sum(item), 2), Frac(min_out_dim, 1)) THEN FALSE ELSE TRUE

\* Check linear fit (total center distances): sum(item)/2 > max_centers fails.
check_centers_fit(item) ==
    IF FracLess(Frac(max_centers, 1), Frac(Sum(item), 2)) THEN FALSE ELSE TRUE

\* Check 'A' gear shaft threads clear the belt drive.
check_belt_cleared(a) == IF a < 33 THEN FALSE ELSE TRUE

\* Check 'B' gear clears spindle ('A' is the meshing gear).
check_spindle_cleared(a, b) ==
    IF (b + spindle_diameter) >= (spindle_teeth + a) THEN FALSE ELSE TRUE

\* Check 'C' or 'D' gear clears the leadscrew.
check_lead_cleared(a, b, c) ==
    IF (a + leadscrew_diameter) >= (b + c) THEN FALSE ELSE TRUE

\* Check 'A' gear clears 'C' gear.
check_gear_cleared(a, b, c, d) ==
    IF (a + c + gear_clearance) >= (b + d) THEN FALSE ELSE TRUE

\* convert() is an alias of no_conversion or conversion (lines 403-406);
\* conversion(value) is 25.4/value.
no_conversion(value) == value

conversion(value) == Frac(254 * value[2], 10 * value[1])

convert(value) ==
    IF pitch_unit = leadscrew_unit THEN no_conversion(value) ELSE conversion(value)

\* A dogleg set whose pitch divides by the D gear instead of the last gear.
DoglegSetByD(p) ==
    <<convert(Frac(spindle_teeth * leadscrew_pitch * p[2], p[1] * p[3])),
      p[1], p[2], 1, p[3], 1, p[4], stdev(p)>>

\* The four configurations of the enumeration loop (lines 480-516): the test
\* that a permutation p fits, and the set stored when it does,
\* [pitch, A, B, C, D, E, F, std] with 1 in the empty positions.
LineFits(p) ==
    /\ check_belt_cleared(p[1])
    /\ check_centers_fit(<<p[1], p[2], p[2], p[3]>>)
    /\ check_reach_fit(<<p[1], p[1], p[2], p[2], p[3]>>)

LineSet(p) ==
    <<convert(Frac(spindle_teeth * leadscrew_pitch, p[3])),
      p[1], 1, p[2], 1, p[3], 1, stdev(p)>>

\* A dogleg test without the reach of the 'A' gear.
DoglegFitsNoReach(p) ==
    /\ check_belt_cleared(p[1])
    /\ check_centers_fit(<<p[2], p[3], p[3], p[4]>>)
    /\ check_spindle_cleared(p[1], p[2])

DoglegFits(p) ==
    /\ check_belt_cleared(p[1])
    /\ check_centers_fit(<<p[2], p[3], p[3], p[4]>>)
    /\ check_reach_fit(<<p[1], p[2], p[3], p[3], p[4]>>)
    /\ check_spindle_cleared(p[1], p[2])

DoglegSet(p) ==
    <<convert(Frac(spindle_teeth * leadscrew_pitch * p[2], p[1] * p[4])),
      p[1], p[2], 1, p[3], 1, p[4], stdev(p)>>

FlashFits(p) ==
    /\ check_belt_cleared(p[1])
    /\ check_centers_fit(<<p[1], p[2], p[3], p[4]>>)
    /\ check_reach_fit(<<p[1], p[1], p[2], p[3], p[4]>>)
    /\ check_spindle_cleared(p[1] * 2 + p[2], p[3])
    /\ check_lead_cleared(p[2], p[3], p[4])

FlashSet(p) ==
    <<convert(Frac(spindle_teeth * leadscrew_pitch * p[3], p[2] * p[4])),
      p[1], 1, p[2], p[3], 1, p[4], stdev(p)>>

QuestionmarkFits(p) ==
    /\ check_belt_cleared(p[1])
    /\ check_centers_fit(<<p[2], p[3], p[4], p[5]>>)
    /\ check_reach_fit(<<p[1], p[2], p[3], p[4], p[5]>>)
    /\ check_spindle_cleared(p[1], p[2])
    /\ check_lead_cleared(p[3], p[4], p[5])
    /\ check_gear_cleared(p[1], p[2], p[4], p[3])

QuestionmarkSet(p) ==
    <<convert(Frac(spindle_teeth * leadscrew_pitch * p[2] * p[4], p[1] * p[3] * p[5])),
      p[1], p[2], p[4], p[3], p[5], 1, stdev(p)>>

\* The sets one permutation adds to fitting_sets, in the order added.
PlaceOnLathe(p) ==
    IF Len(p) = 3 THEN (IF LineFits(p) THEN <<LineSet(p)>> ELSE <<>>)
    ELSE IF Len(p) = 4 THEN
        (IF DoglegFits(p) THEN <<DoglegSet(p)>> ELSE <<>>)
        \o (IF FlashFits(p) THEN <<FlashSet(p)>> ELSE <<>>)
    ELSE IF Len(p) = 5 THEN
        (IF QuestionmarkFits(p) THEN <<QuestionmarkSet(p)>> ELSE <<>>)
    ELSE <<>>

\* The body of 'for s in all_sets' for one combination s (lines 479-516).
FittingOf(s) ==
    LET ps == permutations(s)
    IN  Flatten([k \in 1..Len(ps) |-> PlaceOnLathe(ps[k])])

\* A sort key of pitch and standard deviation only.
KeyLessWithoutSlots(x, y) ==
    IF x[1] # y[1] THEN FracLess(x[1], y[1])
    ELSE FracLess(y[8], x[8])

\* The sort key of line 521: (x[0], -x[7], x[1], ..., x[6]).
KeyLess(x, y) ==
    IF x[1] # y[1] THEN FracLess(x[1], y[1])
    ELSE IF x[8] # y[8] THEN FracLess(y[8], x[8])
    ELSE \E k \in 2..7 : /\ x[k] < y[k]
                         /\ \A j \in 2..(k - 1) : x[j] = y[j]

\* list.sort(key=...): a stable sort.  The entry at position k moves behind
\* the entries with a smaller key and the earlier entries with an equal key.
SortRank(s, k) ==
    1 + Cardinality({m \in 1..Len(s) :
                        \/ KeyLess(s[m], s[k])
                        \/ ~KeyLess(s[k], s[m]) /\ m < k})

SortSets(s) ==
    LET rank == [k \in 1..Len(s) |-> SortRank(s, k)]
    IN  [j \in 1..Len(s) |-> s[CHOOSE k \in 1..Len(s) : rank[k] = j]]

\* list(dict.fromkeys(map(tuple, fitting_sets))): the first occurrence of
\* every distinct tuple, in order.
InSeq(x, s) == \E k \in 1..Len(s) : s[k] = x

RECURSIVE DedupFrom(_, _)
DedupFrom(acc, s) ==
    IF s = <<>> THEN acc
    ELSE DedupFrom(IF InSeq(Head(s), acc) THEN acc ELSE Append(acc, Head(s)), Tail(s))

\* A deduplication keyed on the pitch alone.
RECURSIVE DedupByPitchFrom(_, _)
DedupByPitchFrom(acc, s) ==
    IF s = <<>> THEN acc
    ELSE DedupByPitchFrom(
            IF \E k \in 1..Len(acc) : acc[k][1] = Head(s)[1] THEN acc
            ELSE Append(acc, Head(s)), Tail(s))

DedupByPitch(s) == DedupByPitchFrom(<<>>, s)

Dedup(s) == DedupFrom(<<>>, s)

----------------------------------------------------------------------------
(* check_gear_set (lines 225-286).  check_set is [0, A, B, C, D, E, F];    *)
(* cs(k) below is the code's check_set[k].                                 *)

\* The 'H' of the command line, a token that is not a number.
H == -1

\* int(i) of a command-line token: defined for the numbers only.
IsInt(tok) == tok # H

\* The loop of lines 236-238 (after int() no element is 'H').
CountEmpty(s) == Cardinality({k \in 1..Len(s) : s[k] = H \/ s[k] = 1})

\* The reasons appended to 'fits', in order.
Reason(ok, text) == IF ok THEN <<>> ELSE <<text>>

CheckReasons(s) ==
    LET cs(k) == s[k + 1]
        count == CountEmpty(s)
    IN  Reason(check_belt_cleared(cs(1)), "'A' gear post fouls Spindle pulley.")
        \o (IF count = 3 THEN
                Reason(check_centers_fit(<<cs(1), cs(3), cs(3), cs(5)>>),
                       "Total center distance too large")
                \o Reason(check_reach_fit(<<cs(1), cs(1), cs(3), cs(3), cs(5)>>),
                          "'A' gear doesn't reach Spindle.")
            ELSE <<>>)
        \o (IF count = 2 THEN
                IF cs(3) = H THEN
                    Reason(check_centers_fit(<<cs(2), cs(4), cs(4), cs(6)>>),
                           "Total center distance too large")
                    \o Reason(check_reach_fit(<<cs(1), cs(2), cs(4), cs(4), cs(6)>>),
                              "'A' gear doesn't reach Spindle.")
                    \o Reason(check_spindle_cleared(cs(1), cs(2)), "B gear fouls spindle")
                ELSE
                    Reason(check_centers_fit(<<cs(1), cs(3), cs(4), cs(6)>>),
                           "Total center distance too large")
                    \o Reason(check_reach_fit(<<cs(1), cs(1), cs(3), cs(4), cs(6)>>),
                              "'A' gear doesn't reach Spindle.")
                    \o Reason(check_spindle_cleared(cs(1) * 2 + cs(3), cs(4)),
                              "B gear fouls spindle")
                    \o Reason(check_lead_cleared(cs(3), cs(4), cs(6)),
                              "C gear fouls leadscrew")
            ELSE <<>>)
        \o (IF count = 1 THEN
                Reason(check_centers_fit(<<cs(2), cs(4), cs(3), cs(5)>>),
                       "Total center distance too large")
                \o Reason(check_reach_fit(<<cs(1), cs(2), cs(4), cs(3), cs(5)>>),
                          "'A' gear doesn't reach Spindle.")
                \o Reason(check_lead_cleared(cs(4), cs(3), cs(5)), "D gear fouls leadscrew")
                \o Reason(check_gear_cleared(cs(1), cs(2), cs(3), cs(4)),
                          "A and C gears interfere")
            ELSE <<>>)

\* 'pitch' is assigned only when count is 3, 2 or 1 (line 274 reads it).
PitchBound(s) == CountEmpty(s) \in {1, 2, 3}

CheckPitch(s) ==
    LET cs(k) == s[k + 1]
        count == CountEmpty(s)
        SL == spindle_teeth * leadscrew_pitch
    IN  convert(
            IF count = 3 THEN Frac(SL, cs(5))
            ELSE IF count = 2 THEN
                (IF cs(3) = H THEN Frac(SL * cs(2), cs(1) * cs(6))
                 ELSE Frac(SL * cs(4), cs(3) * cs(6)))
            ELSE Frac(SL * cs(2) * cs(3), cs(1) * cs(4) * cs(5)))

----------------------------------------------------------------------------
(* The inputs explored: data files, target lists and -c requests.          *)

\* Longest target list explored.
MaxTargets == 3

Range(s) == {s[k] : k \in 1..Len(s)}

\* Data files: an inventory with its machine parameters and units.
DataFiles ==
    { [gears_available |-> <<35, 35, 56, 70, 70>>,
       pitch_unit |-> "mm", leadscrew_unit |-> "mm",
       spindle_teeth |-> 56, spindle_diameter |-> 48,
       leadscrew_pitch |-> 2, leadscrew_diameter |-> 23,
       max_centers |-> 105, min_out_dim |-> 133, gear_clearance |-> 4],
      [gears_available |-> <<56, 80, 64, 56, 20>>,
       pitch_unit |-> "tpi", leadscrew_unit |-> "mm",
       spindle_teeth |-> 56, spindle_diameter |-> 40,
       leadscrew_pitch |-> 2, leadscrew_diameter |-> 23,
       max_centers |-> 100, min_out_dim |-> 130, gear_clearance |-> 4],
      [gears_available |-> <<20, 24, 30>>,
       pitch_unit |-> "mm", leadscrew_unit |-> "mm",
       spindle_teeth |-> 56, spindle_diameter |-> 56,
       leadscrew_pitch |-> 2, leadscrew_diameter |-> 23,
       max_centers |-> 135, min_out_dim |-> 115, gear_clearance |-> 4],
      [gears_available |-> <<40, 50>>,
       pitch_unit |-> "mm", leadscrew_unit |-> "mm",
       spindle_teeth |-> 56, spindle_diameter |-> 48,
       leadscrew_pitch |-> 2, leadscrew_diameter |-> 23,
       max_centers |-> 105, min_out_dim |-> 133, gear_clearance |-> 4] }

\* Target pitches a list is drawn from: 1.4, 1.5, 1.6, 2, 2.5, 6.4 and 7 mm,
\* or 5, 10, 12 and 50.8 tpi.
TargetValues(unit) ==
    IF unit = "mm"
    THEN {Frac(7, 5), Frac(3, 2), Frac(8, 5), Frac(2, 1), Frac(5, 2), Frac(32, 5),
          Frac(7, 1)}
    ELSE {Frac(5, 1), Frac(10, 1), Frac(12, 1), Frac(254, 5)}

\* Target lists: up to MaxTargets different pitches, in any order.
TargetLists(unit) ==
    UNION {{ts \in [1..n -> TargetValues(unit)] :
                \A a, b \in 1..n : a # b => ts[a] # ts[b]} : n \in 1..MaxTargets}

\* The target list of the data file when a single set is checked.
DefaultPitches(unit) == IF unit = "mm" THEN <<Frac(2, 1)>> ELSE <<Frac(10, 1)>>

\* No -c argument.
NoCheck == <<>>

\* Every ordering of every r-subset of the inventory.
Orderings(gears, r) ==
    UNION {Range(permutations(c)) : c \in Range(combinations(gears, r))}

\* -c requests: the placements of the diagram of lines 97-105 (I line, II
\* dogleg, III flash, IV questionmark) with the empty positions marked m,
\* a request with six gears, and requests with five and seven positions.
CheckRequests(gears) ==
    LET n == Len(gears)
        g(k) == gears[((k - 1) % n) + 1]
        marks == {H, 1}
    IN  {<<p[1], m, p[2], m, p[3], m>> : p \in Orderings(gears, 3), m \in marks}
        \cup {<<p[1], p[2], m, p[3], m, p[4]>> : p \in Orderings(gears, 4), m \in marks}
        \cup {<<p[1], m, p[2], p[3], m, p[4]>> : p \in Orderings(gears, 4), m \in marks}
        \cup {<<p[1], p[2], p[4], p[3], p[5], m>> : p \in Orderings(gears, 5), m \in marks}
        \cup {<<g(1), g(2), g(3), g(4), g(5), g(6)>>,
              <<g(1), 1, g(2), 1, g(3)>>,
              <<g(1), 1, g(2), 1, g(3), 1, 1>>}

NoReport == [smallest |-> <<>>, biggest |-> <<>>]

\* tpi_box_gears.py is not run.
TpiOff == [pc |-> "off"]

Init ==
    /\ \E d \in DataFiles :
        /\ gears_available = d.gears_available
        /\ pitch_unit = d.pitch_unit
        /\ leadscrew_unit = d.leadscrew_unit
        /\ spindle_teeth = d.spindle_teeth
        /\ spindle_diameter = d.spindle_diameter
        /\ leadscrew_pitch = d.leadscrew_pitch
        /\ leadscrew_diameter = d.leadscrew_diameter
        /\ max_centers = d.max_centers
        /\ min_out_dim = d.min_out_dim
        /\ gear_clearance = d.gear_clearance
        /\ \/ /\ args_check = NoCheck
              /\ pitches \in TargetLists(d.pitch_unit)
              /\ output_format \in {"layout", "list"}
           \/ /\ args_check \in CheckRequests(d.gears_available)
              /\ pitches = DefaultPitches(d.pitch_unit)
              /\ output_format = "layout"
    /\ pc = "start"
    /\ all_sets = <<>>
    /\ counter = 0
    /\ perms = 0
    /\ fitting_sets = <<>>
    /\ total_fitting_sets = 0
    /\ target = Frac(0, 1)
    /\ zero_error_exists = FALSE
    /\ i = 0
    /\ target_feedrates = <<>>
    /\ out = <<>>
    /\ big_and_small = NoReport
    /\ check_set = <<>>
    /\ fits = <<>>
    /\ error = ""
    /\ tpi_box = TpiOff

config == <<gears_available, pitch_unit, leadscrew_unit, spindle_teeth,
            spindle_diameter, leadscrew_pitch, leadscrew_diameter, max_centers,
            min_out_dim, gear_clearance, output_format, args_check>>

----------------------------------------------------------------------------
(* The -c branch (lines 410-427).                                          *)

\* check_set=[0] followed by int(i) of every position.
CheckSetOf(check_gears) == <<0>> \o check_gears

\* A check that rejects only requests with fewer than six positions.
CheckSetAtLeastSix ==
    /\ pc = "start"
    /\ args_check # NoCheck
    /\ IF Len(args_check) < 6
       THEN \* raise ValueError("Set must have 6 positions ...")
            /\ error' = "ValueError: Set must have 6 positions"
            /\ pc' = "error"
            /\ UNCHANGED <<check_set, fits>>
       ELSE IF \E k \in 1..6 : ~IsInt(args_check[k])
       THEN \* int('H') raises ValueError (lines 423 and 425)
            /\ error' = "ValueError: invalid literal for int"
            /\ pc' = "error"
            /\ UNCHANGED <<check_set, fits>>
       ELSE IF ~PitchBound(CheckSetOf(args_check))
       THEN \* line 274 reads 'pitch', which no branch assigned
            /\ error' = "UnboundLocalError"
            /\ pc' = "error"
            /\ check_set' = CheckSetOf(args_check)
            /\ UNCHANGED fits
       ELSE LET s == CheckSetOf(args_check)
                r == CheckReasons(s)
            IN  /\ check_set' = [s EXCEPT ![1] = CheckPitch(s)]
                /\ fits' = IF r = <<>> THEN <<"Gears fit.">> ELSE r
                /\ error' = ""
                /\ pc' = "done"
    /\ UNCHANGED <<tpi_box, config, pitches, all_sets, counter, perms, fitting_sets,
                   total_fitting_sets, target, zero_error_exists, i, out,
                   big_and_small, target_feedrates>>

\* Lines 410-427: split the request, test that it has six positions, convert
\* every position with int() and check the set.
CheckSet ==
    /\ pc = "start"
    /\ args_check # NoCheck
    /\ IF Len(args_check) # 6
       THEN \* raise ValueError("Set must have 6 positions ...")
            /\ error' = "ValueError: Set must have 6 positions"
            /\ pc' = "error"
            /\ UNCHANGED <<check_set, fits>>
       ELSE IF \E k \in 1..6 : ~IsInt(args_check[k])
       THEN \* int('H') raises ValueError (lines 423 and 425)
            /\ error' = "ValueError: invalid literal for int"
            /\ pc' = "error"
            /\ UNCHANGED <<check_set, fits>>
       ELSE IF ~PitchBound(CheckSetOf(args_check))
       THEN \* line 274 reads 'pitch', which no branch assigned
            /\ error' = "UnboundLocalError"
            /\ pc' = "error"
            /\ check_set' = CheckSetOf(args_check)
            /\ UNCHANGED fits
       ELSE LET s == CheckSetOf(args_check)
                r == CheckReasons(s)
            IN  /\ check_set' = [s EXCEPT ![1] = CheckPitch(s)]
                /\ fits' = IF r = <<>> THEN <<"Gears fit.">> ELSE r
                /\ error' = ""
                /\ pc' = "done"
    /\ UNCHANGED <<tpi_box, config, pitches, all_sets, counter, perms, fitting_sets,
                   total_fitting_sets, target, zero_error_exists, i, out,
                   big_and_small, target_feedrates>>

----------------------------------------------------------------------------
(* The main run (lines 446-604).                                           *)

\* pitches.sort() (line 451).
RECURSIVE InsertTarget(_, _)
InsertTarget(t, s) ==
    IF s = <<>> THEN <<t>>
    ELSE IF FracLess(t, Head(s)) THEN <<t>> \o s
    ELSE <<Head(s)>> \o InsertTarget(t, Tail(s))

RECURSIVE SortTargets(_)
SortTargets(s) ==
    IF s = <<>> THEN <<>>
    ELSE InsertTarget(s[Len(s)], SortTargets(SubSeq(s, 1, Len(s) - 1)))

\* Lines 446-468: get some numbers, sort the targets, publish them, start
\* with no sets.
Setup ==
    /\ pc = "start"
    /\ args_check = NoCheck
    /\ all_sets' = all_possible_sets(gears_available)
    /\ perms' = possible_permutations(Len(gears_available))
    /\ pitches' = SortTargets(pitches)
    /\ target_feedrates' = pitches'
    /\ fitting_sets' = <<>>
    /\ counter' = 0
    /\ pc' = "enumerate"
    /\ UNCHANGED <<tpi_box, config, total_fitting_sets, target, zero_error_exists, i, out,
                   big_and_small, check_set, fits, error>>

\* One pass of 'for s in all_sets' (lines 469-516).
Enumerate ==
    /\ pc = "enumerate"
    /\ counter < Len(all_sets)
    /\ counter' = counter + 1
    /\ fitting_sets' = fitting_sets \o FittingOf(all_sets[counter + 1])
    /\ UNCHANGED <<tpi_box, config, pitches, all_sets, perms, total_fitting_sets, target,
                   zero_error_exists, i, out, big_and_small, target_feedrates, check_set, fits,
                   error, pc>>

\* fitting_sets.sort(...) (line 521), when the loop has ended.
SortFittingSets ==
    /\ pc = "enumerate"
    /\ counter = Len(all_sets)
    /\ fitting_sets' = SortSets(fitting_sets)
    /\ pc' = "dedup"
    /\ UNCHANGED <<tpi_box, config, pitches, all_sets, counter, perms, total_fitting_sets,
                   target, zero_error_exists, i, out, big_and_small, target_feedrates, check_set,
                   fits, error>>

\* Lines 525-538: remove the duplicates, grab the first target.
RemoveDuplicates ==
    /\ pc = "dedup"
    /\ fitting_sets' = Dedup(fitting_sets)
    /\ target' = Head(pitches)
    /\ pitches' = Tail(pitches)
    /\ total_fitting_sets' = Len(fitting_sets')
    /\ zero_error_exists' = FALSE
    /\ i' = 0
    /\ pc' = "search"
    /\ UNCHANGED <<tpi_box, config, all_sets, counter, perms, out, big_and_small, target_feedrates,
                   check_set, fits, error>>

\* What the search publishes: the target it is for, whether the set is a
\* perfect fit, the nearest smaller or the nearest larger one, and the set.
Published(t, kind, set) == [target |-> t, kind |-> kind, set |-> set]

\* Lines 566-574 and 591-595: reset the flag and pop the next target, or break.
NextTarget ==
    /\ zero_error_exists' = FALSE
    /\ IF pitches # <<>>
       THEN /\ target' = Head(pitches)
            /\ pitches' = Tail(pitches)
            /\ i' = i + 1
            /\ pc' = "search"
       ELSE /\ pc' = "report"
            /\ UNCHANGED <<target, pitches, i>>

\* One pass of the loop of lines 540-574 ('layout'); i is the code's i.
SearchLayout ==
    /\ pc = "search"
    /\ output_format = "layout"
    /\ i < total_fitting_sets - 1
    /\ LET p == fitting_sets[i + 1]
           perfect == p[1] = target /\ ~zero_error_exists
           flag == zero_error_exists \/ perfect
           out1 == IF perfect THEN Append(out, Published(target, "exact", p)) ELSE out
           out2 == IF i > 0
                   THEN Append(out1, Published(target, "smaller", fitting_sets[i]))
                   ELSE out1
       IN  IF FracLess(target, p[1])
           THEN /\ out' = IF ~flag
                          THEN Append(out2, Published(target, "larger", p))
                          ELSE out1
                /\ NextTarget
           ELSE /\ out' = out1
                /\ zero_error_exists' = flag
                /\ i' = i + 1
                /\ UNCHANGED <<target, pitches, pc>>
    /\ UNCHANGED <<tpi_box, config, all_sets, counter, perms, fitting_sets,
                   total_fitting_sets, big_and_small, target_feedrates, check_set, fits, error>>

\* One pass of the loop of lines 577-595 ('list').
SearchList ==
    /\ pc = "search"
    /\ output_format # "layout"
    /\ i < total_fitting_sets - 1
    /\ LET p == fitting_sets[i + 1]
           perfect == p[1] = target
           flag == zero_error_exists \/ perfect
           out1 == IF perfect THEN Append(out, Published(target, "exact", p)) ELSE out
           out2 == IF i > 0
                   THEN Append(out1, Published(target, "smaller", fitting_sets[i]))
                   ELSE out1
       IN  IF FracLess(target, p[1])
           THEN /\ out' = IF ~flag
                          THEN Append(out2, Published(target, "larger", p))
                          ELSE out1
                /\ NextTarget
           ELSE /\ out' = out1
                /\ zero_error_exists' = flag
                /\ i' = i + 1
                /\ UNCHANGED <<target, pitches, pc>>
    /\ UNCHANGED <<tpi_box, config, all_sets, counter, perms, fitting_sets,
                   total_fitting_sets, big_and_small, target_feedrates, check_set, fits, error>>

\* range(total_fitting_sets-1) is exhausted.
SearchEnd ==
    /\ pc = "search"
    /\ i >= total_fitting_sets - 1
    /\ pc' = "report"
    /\ UNCHANGED <<tpi_box, config, pitches, all_sets, counter, perms, fitting_sets,
                   total_fitting_sets, target, zero_error_exists, i, out,
                   big_and_small, target_feedrates, check_set, fits, error>>

\* A report that does not branch on the unit.
ReportUnitBlind ==
    /\ pc = "report"
    /\ total_fitting_sets > 0
    /\ big_and_small' = [smallest |-> fitting_sets[1],
                         biggest |-> fitting_sets[total_fitting_sets]]
    /\ pc' = "done"
    /\ UNCHANGED <<tpi_box, config, pitches, all_sets, counter, perms, fitting_sets,
                   total_fitting_sets, target, zero_error_exists, i, out,
                   target_feedrates, check_set, fits, error>>

\* Lines 597-604, with at least one fitting set.
Report ==
    /\ pc = "report"
    /\ total_fitting_sets > 0
    /\ big_and_small' =
          IF pitch_unit = "tpi"
          THEN [smallest |-> fitting_sets[total_fitting_sets],
                biggest |-> fitting_sets[1]]
          ELSE [smallest |-> fitting_sets[1],
                biggest |-> fitting_sets[total_fitting_sets]]
    /\ pc' = "done"
    /\ UNCHANGED <<tpi_box, config, pitches, all_sets, counter, perms, fitting_sets,
                   total_fitting_sets, target, zero_error_exists, i, out,
                   target_feedrates, check_set, fits, error>>

\* Lines 597-601 with no fitting set: fitting_sets[-1] and fitting_sets[0]
\* of an empty list raise IndexError.
ReportNothing ==
    /\ pc = "report"
    /\ total_fitting_sets = 0
    /\ error' = "IndexError"
    /\ pc' = "error"
    /\ UNCHANGED <<tpi_box, config, pitches, all_sets, counter, perms, fitting_sets,
                   total_fitting_sets, target, zero_error_exists, i, out,
                   big_and_small, target_feedrates, check_set, fits>>

Next ==
    \/ CheckSet
    \/ Setup
    \/ Enumerate
    \/ SortFittingSets
    \/ RemoveDuplicates
    \/ SearchLayout
    \/ SearchList
    \/ SearchEnd
    \/ Report
    \/ ReportNothing

Spec == Init /\ [][Next]_vars

\* Runs that differ in the order in which the data file lists the gears:
\* the inventory of a data file in any order, with the data file's targets.
RankInit ==
    /\ \E d \in DataFiles :
        /\ gears_available \in Range(permutations(d.gears_available))
        /\ pitch_unit = d.pitch_unit
        /\ leadscrew_unit = d.leadscrew_unit
        /\ spindle_teeth = d.spindle_teeth
        /\ spindle_diameter = d.spindle_diameter
        /\ leadscrew_pitch = d.leadscrew_pitch
        /\ leadscrew_diameter = d.leadscrew_diameter
        /\ max_centers = d.max_centers
        /\ min_out_dim = d.min_out_dim
        /\ gear_clearance = d.gear_clearance
        /\ pitches = DefaultPitches(d.pitch_unit)
        /\ output_format \in {"layout", "list"}
        /\ \/ args_check = NoCheck
           \/ /\ args_check \in CheckRequests(d.gears_available)
              /\ gears_available = d.gears_available
              /\ output_format = "layout"
    /\ pc = "start"
    /\ all_sets = <<>>
    /\ counter = 0
    /\ perms = 0
    /\ fitting_sets = <<>>
    /\ total_fitting_sets = 0
    /\ target = Frac(0, 1)
    /\ zero_error_exists = FALSE
    /\ i = 0
    /\ target_feedrates = <<>>
    /\ out = <<>>
    /\ big_and_small = NoReport
    /\ check_set = <<>>
    /\ fits = <<>>
    /\ error = ""
    /\ tpi_box = TpiOff

RankSpec == RankInit /\ [][Next]_vars

----------------------------------------------------------------------------
(* Properties of the nearest-match search.                                 *)

\* The main run has left the search loop.
Searched == args_check = NoCheck /\ pc \in {"report", "done", "error"}

PitchOf(set) == set[1]

FeasiblePitches == {PitchOf(fitting_sets[k]) : k \in 1..Len(fitting_sets)}

PitchesBelow(t) == {q \in FeasiblePitches : FracLess(q, t)}

PitchesAbove(t) == {q \in FeasiblePitches : FracLess(t, q)}

LargestOf(qs) == CHOOSE q \in qs : \A r \in qs : ~FracLess(q, r)

SmallestOf(qs) == CHOOSE q \in qs : \A r \in qs : ~FracLess(r, q)

Targets == Range(target_feedrates)

\* The first set, in sort order, whose pitch is t.
FirstWithPitch(t) ==
    fitting_sets[CHOOSE k \in 1..Len(fitting_sets) :
                    /\ PitchOf(fitting_sets[k]) = t
                    /\ \A j \in 1..(k - 1) : PitchOf(fitting_sets[j]) # t]

\* How many match records (a perfect fit, or a bracket, which always ends
\* with its nearest larger set) were published for t.
MatchRecords(t) ==
    Cardinality({k \in 1..Len(out) :
                    out[k].target = t /\ out[k].kind \in {"exact", "larger"}})

Occurrences(t) ==
    Cardinality({k \in 1..Len(target_feedrates) : target_feedrates[k] = t})

\* C1: for every target with no feasible set of exactly its pitch that lies
\* strictly between the smallest and the largest feasible pitch, what is
\* published for it (layout or list) is the set with the largest pitch below
\* it as nearest smaller and the set with the smallest pitch above it as
\* nearest larger.
C1_BracketIsNearest ==
    Searched =>
        \A t \in Targets :
            (t \notin FeasiblePitches /\ PitchesBelow(t) # {} /\ PitchesAbove(t) # {}) =>
                \A k \in 1..Len(out) :
                    out[k].target = t =>
                        \/ /\ out[k].kind = "smaller"
                           /\ PitchOf(out[k].set) = LargestOf(PitchesBelow(t))
                        \/ /\ out[k].kind = "larger"
                           /\ PitchOf(out[k].set) = SmallestOf(PitchesAbove(t))

\* C2: in layout mode, for every target that is the pitch of some feasible
\* set, a record is published for it, it is a perfect-fit record and never a
\* bracket, and the set shown is the first one in sort order with that pitch.
C2_ExactMatchIsFirst ==
    (Searched /\ output_format = "layout") =>
        \A t \in Targets :
            t \in FeasiblePitches =>
                /\ \E k \in 1..Len(out) : out[k].target = t
                /\ \A k \in 1..Len(out) :
                      out[k].target = t =>
                          out[k].kind = "exact" /\ out[k].set = FirstWithPitch(t)

\* C3: in list mode, every feasible set whose pitch equals a target is
\* published as a perfect fit for that target.
C3_ListPublishesEveryPerfectFit ==
    (Searched /\ output_format = "list") =>
        \A t \in Targets :
            \A k \in 1..Len(fitting_sets) :
                PitchOf(fitting_sets[k]) = t =>
                    \E j \in 1..Len(out) : out[j] = Published(t, "exact", fitting_sets[k])

\* C4: the targets are processed in ascending order, and in layout mode every
\* target not larger than the largest feasible pitch gets exactly one match
\* record (a perfect fit or a bracket) before the scan ends.
C4_EveryTargetReportedOnce ==
    (Searched /\ output_format = "layout") =>
        /\ \A a, b \in 1..Len(target_feedrates) :
              a < b => ~FracLess(target_feedrates[b], target_feedrates[a])
        /\ \A a, b \in 1..Len(out) :
              a < b => ~FracLess(out[b].target, out[a].target)
        /\ \A t \in Targets :
              (FeasiblePitches # {} /\ ~FracLess(LargestOf(FeasiblePitches), t)) =>
                  MatchRecords(t) = Occurrences(t)

----------------------------------------------------------------------------
(* Properties of ranking and deduplication.                                *)

\* Pitch and the six positions of a set, placeholders included.
PitchAndSlots(set) == SubSeq(set, 1, 7)

FirstIndex(s, x) == CHOOSE k \in 1..Len(s) : s[k] = x /\ \A j \in 1..(k - 1) : s[j] # x

\* 'after' is 'before' with every group of identical sets reduced to its
\* first member: no two sets of 'after' share pitch and positions, every set
\* of 'before' survives exactly once, nothing else appears, and the survivors
\* keep the order of their first occurrences.
KeepsFirstOfEachGroup(before, after) ==
    /\ \A a, b \in 1..Len(after) :
          a # b => PitchAndSlots(after[a]) # PitchAndSlots(after[b])
    /\ \A k \in 1..Len(before) :
          Cardinality({j \in 1..Len(after) : after[j] = before[k]}) = 1
    /\ \A j \in 1..Len(after) : InSeq(after[j], before)
    /\ \A a, b \in 1..Len(after) :
          a < b => FirstIndex(before, after[a]) < FirstIndex(before, after[b])

\* C5: the deduplication step leaves no two sets with the same pitch and
\* six positions; of every group of identical sorted sets exactly one
\* survives, the first in sort order, and no set that differs from all
\* others is removed.
C5_DedupKeepsFirstOfEachGroup ==
    [][pc = "dedup" => KeepsFirstOfEachGroup(fitting_sets, fitting_sets')]_vars

\* Every fitting placement of the inventory, duplicates included.
AllFitting == Flatten([k \in 1..Len(all_sets) |-> FittingOf(all_sets[k])])

\* Duplicates were found and removed: fewer sets are left than were found.
C5_Witness ==
    /\ pc = "search"
    /\ i = 0
    /\ out = <<>>
    /\ total_fitting_sets > 0
    /\ total_fitting_sets < Len(AllFitting)


\* C6: the feasible list is sorted by ascending pitch and, among sets of
\* equal pitch, by ascending standard deviation, so that the perfect fit
\* published in layout mode has the lowest standard deviation of all sets
\* with the target's pitch.
C6_SmallestSpreadFirst ==
    (args_check = NoCheck /\ pc \in {"dedup", "search", "report", "done"}) =>
        /\ \A a, b \in 1..Len(fitting_sets) :
              a < b =>
                  /\ ~FracLess(fitting_sets[b][1], fitting_sets[a][1])
                  /\ fitting_sets[a][1] = fitting_sets[b][1] =>
                         ~FracLess(fitting_sets[b][8], fitting_sets[a][8])
        /\ output_format = "layout" =>
              \A k \in 1..Len(out) :
                  out[k].kind = "exact" =>
                      \A j \in 1..Len(fitting_sets) :
                          fitting_sets[j][1] = out[k].target =>
                              ~FracLess(fitting_sets[j][8], out[k].set[8])

----------------------------------------------------------------------------
(* Properties of the enumeration.                                          *)

\* n!/(n-k)!
FallingFactorial(n, k) == Factorial(n) \div Factorial(n - k)

\* The (ordering, topology) candidates the loop tests for one combination:
\* each ordering once, a 4-gear ordering once as dogleg and once as flash.
CandidatesOf(s) == Len(permutations(s)) * (IF Len(s) = 4 THEN 2 ELSE 1)

TestedCandidates == Sum([k \in 1..Len(all_sets) |-> CandidatesOf(all_sets[k])])

\* C7: for an inventory of n >= 5 gears, possible_permutations(n) is the sum
\* of n!/(n-k)! over k = 3, 4, 4, 5, and that is the number of candidates the
\* enumeration loop tests.
C7_PermutationBudget ==
    (args_check = NoCheck /\ pc = "dedup" /\ Len(gears_available) >= 5) =>
        LET n == Len(gears_available)
        IN  /\ perms = FallingFactorial(n, 3) + FallingFactorial(n, 4)
                       + FallingFactorial(n, 4) + FallingFactorial(n, 5)
            /\ perms = TestedCandidates

----------------------------------------------------------------------------
(* Properties of the single-set check.                                     *)

\* The topology a six-position request denotes, by its empty positions
\* (diagram of lines 97-105): I line A-C-E, II dogleg A-B-D-F, III flash
\* A-C-D-F, IV questionmark A-B-C-D-E.
IsEmpty(tok) == tok = H \/ tok = 1

EmptyPositions(req) == {k \in 1..Len(req) : IsEmpty(req[k])}

Topology(req) ==
    IF Len(req) # 6 THEN "none"
    ELSE IF EmptyPositions(req) = {2, 4, 6} THEN "line"
    ELSE IF EmptyPositions(req) = {3, 5} THEN "dogleg"
    ELSE IF EmptyPositions(req) = {2, 5} THEN "flash"
    ELSE IF EmptyPositions(req) = {6} THEN "questionmark"
    ELSE "none"

\* The permutation the enumeration loop stores as this placement.
OrderingOf(req) ==
    IF Topology(req) = "line" THEN <<req[1], req[3], req[5]>>
    ELSE IF Topology(req) = "dogleg" THEN <<req[1], req[2], req[4], req[6]>>
    ELSE IF Topology(req) = "flash" THEN <<req[1], req[3], req[4], req[6]>>
    ELSE <<req[1], req[2], req[4], req[3], req[5]>>

\* The predicates the enumeration loop evaluates for the placement.
PipelineTests(req) ==
    LET p == OrderingOf(req)
    IN  IF Topology(req) = "line" THEN
            <<check_belt_cleared(p[1]),
              check_centers_fit(<<p[1], p[2], p[2], p[3]>>),
              check_reach_fit(<<p[1], p[1], p[2], p[2], p[3]>>)>>
        ELSE IF Topology(req) = "dogleg" THEN
            <<check_belt_cleared(p[1]),
              check_centers_fit(<<p[2], p[3], p[3], p[4]>>),
              check_reach_fit(<<p[1], p[2], p[3], p[3], p[4]>>),
              check_spindle_cleared(p[1], p[2])>>
        ELSE IF Topology(req) = "flash" THEN
            <<check_belt_cleared(p[1]),
              check_centers_fit(<<p[1], p[2], p[3], p[4]>>),
              check_reach_fit(<<p[1], p[1], p[2], p[3], p[4]>>),
              check_spindle_cleared(p[1] * 2 + p[2], p[3]),
              check_lead_cleared(p[2], p[3], p[4])>>
        ELSE
            <<check_belt_cleared(p[1]),
              check_centers_fit(<<p[2], p[3], p[4], p[5]>>),
              check_reach_fit(<<p[1], p[2], p[3], p[4], p[5]>>),
              check_spindle_cleared(p[1], p[2]),
              check_lead_cleared(p[3], p[4], p[5]),
              check_gear_cleared(p[1], p[2], p[4], p[3])>>

FailingTests(req) ==
    Cardinality({k \in 1..Len(PipelineTests(req)) : ~PipelineTests(req)[k]})

PipelinePitch(req) ==
    LET p == OrderingOf(req)
    IN  IF Topology(req) = "line" THEN LineSet(p)[1]
        ELSE IF Topology(req) = "dogleg" THEN DoglegSet(p)[1]
        ELSE IF Topology(req) = "flash" THEN FlashSet(p)[1]
        ELSE QuestionmarkSet(p)[1]

\* C8: for a placement of one of the four topologies that check_gear_set
\* reports on, the report is 'Gears fit.' exactly when the enumeration loop
\* accepts the placement for that topology, and otherwise holds one reason
\* per predicate of the topology that fails.
C8_CheckAgreesWithPipeline ==
    (args_check # NoCheck /\ pc = "done" /\ Topology(args_check) # "none") =>
        /\ fits = <<"Gears fit.">> <=> FailingTests(args_check) = 0
        /\ fits # <<"Gears fit.">> => Len(fits) = FailingTests(args_check)

\* C9: a six-position request that marks its empty positions with 'H' in the
\* pattern of one of the four topologies is accepted and evaluated as that
\* topology: it ends with a defined pitch, the pitch of that topology's
\* formula, and that topology's verdict.
C9_HMarkerSelectsTopology ==
    (/\ args_check # NoCheck
     /\ pc \in {"done", "error"}
     /\ Topology(args_check) # "none"
     /\ \A k \in EmptyPositions(args_check) : args_check[k] = H) =>
        /\ pc = "done"
        /\ check_set[1] = PipelinePitch(args_check)
        /\ fits = <<"Gears fit.">> <=> FailingTests(args_check) = 0

\* Half width of the window of values tried around each threshold.
ProbeWidth == 2

Window(x) == (x - ProbeWidth)..(x + ProbeWidth)

Teeth == Range(gears_available)

CheckDone == args_check # NoCheck /\ pc = "done"

\* C10: boundary semantics of the feasibility predicates, on integer inputs
\* at and around each threshold: reach_fit fails exactly when the sum is
\* below 2*min_out_dim (passes at equality), centers_fit exactly when it is
\* above 2*max_centers (passes at equality), spindle_cleared, lead_cleared
\* and gear_cleared exactly from equality on, belt_cleared exactly below 33;
\* and the verdict of a checked set follows these thresholds.
C10_BoundarySemantics ==
    /\ \A a \in Teeth : \A b \in Window(2 * min_out_dim - a) :
          check_reach_fit(<<a, b>>) <=> ~(a + b < 2 * min_out_dim)
    /\ \A a \in Teeth : \A b \in Window(2 * max_centers - a) :
          check_centers_fit(<<a, b>>) <=> ~(a + b > 2 * max_centers)
    /\ \A a \in Teeth : \A b \in Window(spindle_teeth + a - spindle_diameter) :
          check_spindle_cleared(a, b) <=> b < spindle_teeth + a - spindle_diameter
    /\ \A a, b \in Teeth : \A c \in Window(a + leadscrew_diameter - b) :
          check_lead_cleared(a, b, c) <=> c > a + leadscrew_diameter - b
    /\ \A a, b, c \in Teeth : \A d \in Window(a + c + gear_clearance - b) :
          check_gear_cleared(a, b, c, d) <=> d > a + c + gear_clearance - b
    /\ \A a \in Window(33) : check_belt_cleared(a) <=> a >= 33
    /\ CheckDone =>
          (InSeq("'A' gear post fouls Spindle pulley.", fits) <=> args_check[1] < 33)
    /\ (CheckDone /\ Topology(args_check) = "line") =>
          /\ InSeq("'A' gear doesn't reach Spindle.", fits)
                <=> 2 * args_check[1] + 2 * args_check[3] + args_check[5]
                        < 2 * min_out_dim
          /\ InSeq("Total center distance too large", fits)
                <=> args_check[1] + 2 * args_check[3] + args_check[5]
                        > 2 * max_centers

\* A line placement whose reach is exactly min_out_dim was checked, and fits.
C10_Witness ==
    /\ CheckDone
    /\ Topology(args_check) = "line"
    /\ 2 * args_check[1] + 2 * args_check[3] + args_check[5] = 2 * min_out_dim
    /\ fits = <<"Gears fit.">>


----------------------------------------------------------------------------
(* Properties of the entries of the feasible list.                         *)

\* The six stored slots A..F of an entry.
Slots(e) == SubSeq(e, 2, 7)

\* 25.4/raw when the units differ, raw otherwise.
UnitConverted(raw) ==
    IF pitch_unit # leadscrew_unit THEN Frac(254 * raw[2], 10 * raw[1]) ELSE raw

\* S*L times the product of num over the product of den.
Ratio(num, den) == Frac(spindle_teeth * leadscrew_pitch * num, den)

\* The pitch of an entry by the formula of its topology, on its stored slots,
\* the dogleg being stored as A, B, D, F with C and E empty.
PitchBySlots(e) ==
    LET s == Slots(e)
        A == s[1]   B == s[2]   C == s[3]   D == s[4]   E == s[5]   F == s[6]
    IN  IF Topology(s) = "line" THEN UnitConverted(Ratio(1, E))
        ELSE IF Topology(s) = "dogleg" THEN UnitConverted(Ratio(B, A * F))
        ELSE IF Topology(s) = "flash" THEN UnitConverted(Ratio(D, C * F))
        ELSE UnitConverted(Ratio(B * C, A * D * E))

\* Number of real gears of an entry.
RealGears(e) == 6 - Cardinality(EmptyPositions(Slots(e)))

\* The same with the dogleg formula S*L/A * B/E: the four-gear entry with a
\* B gear is the dogleg.
PitchByRoleLetter(e) ==
    LET s == Slots(e)
        A == s[1]   B == s[2]   C == s[3]   D == s[4]   E == s[5]   F == s[6]
    IN  IF RealGears(e) = 3 THEN UnitConverted(Ratio(1, E))
        ELSE IF RealGears(e) = 4 /\ ~IsEmpty(B) THEN UnitConverted(Ratio(B, A * E))
        ELSE IF RealGears(e) = 4 THEN UnitConverted(Ratio(D, C * F))
        ELSE UnitConverted(Ratio(B * C, A * D * E))

----------------------------------------------------------------------------
(* Properties of the report of the extremes.                               *)

Reported == args_check = NoCheck /\ pc = "done"

\* C12: the report names as smallest feedrate the last entry of the sorted
\* list (largest numeric pitch) and as biggest feedrate the first entry when
\* the unit is tpi, and the reverse when it is mm; the two entries have the
\* minimum and the maximum pitch of the whole list, wherever the search loop
\* stopped.
C12_ExtremesByUnit ==
    Reported =>
        LET first == fitting_sets[1]
            last == fitting_sets[Len(fitting_sets)]
        IN  /\ PitchOf(first) = SmallestOf(FeasiblePitches)
            /\ PitchOf(last) = LargestOf(FeasiblePitches)
            /\ pitch_unit = "tpi" =>
                  big_and_small = [smallest |-> last, biggest |-> first]
            /\ pitch_unit = "mm" =>
                  big_and_small = [smallest |-> first, biggest |-> last]

\* A tpi run reported its extremes after the search stopped before the end
\* of a list with different pitches.
C12_Witness ==
    /\ Reported
    /\ pitch_unit = "tpi"
    /\ i < total_fitting_sets - 1
    /\ FracLess(PitchOf(fitting_sets[1]), PitchOf(fitting_sets[Len(fitting_sets)]))
    /\ big_and_small.smallest = fitting_sets[Len(fitting_sets)]


----------------------------------------------------------------------------
(* Properties of the handling of errors.                                   *)

Ended == pc \in {"done", "error"}

\* C13: with an empty feasible list the search and the report of the
\* extremes complete (with a 'no feasible configurations' outcome); no step
\* indexes the empty list out of range.
C13_EmptyListCompletes ==
    (args_check = NoCheck /\ Ended /\ fitting_sets = <<>>) =>
        pc = "done" /\ error = ""

\* C14: a check request that does not have exactly six positions is rejected
\* with an error before a predicate or a pitch is evaluated and before
\* anything is written.
C14_WrongLengthRejected ==
    (args_check # NoCheck /\ Len(args_check) # 6 /\ pc # "start") =>
        /\ pc = "error"
        /\ error = "ValueError: Set must have 6 positions"
        /\ check_set = <<>>
        /\ fits = <<>>
        /\ out = <<>>
        /\ big_and_small = NoReport

\* A request with seven positions was rejected.
C14_Witness ==
    /\ pc = "error"
    /\ Len(args_check) = 7
    /\ error = "ValueError: Set must have 6 positions"


\* An inventory that is empty, has fewer than three gears or holds a
\* non-positive tooth count.
StructurallyInvalid(gears) ==
    \/ Len(gears) < 3
    \/ \E k \in 1..Len(gears) : gears[k] <= 0

\* C15: a structurally invalid inventory is rejected with an error before
\* the enumeration starts; the run never reaches enumeration, ranking or
\* search with it.
C15_InvalidInventoryRejected ==
    (args_check = NoCheck /\ StructurallyInvalid(gears_available)) =>
        /\ pc \in {"start", "error"}
        /\ fitting_sets = <<>> /\ total_fitting_sets = 0 /\ i = 0
        /\ pc = "error" => error # "IndexError"


----------------------------------------------------------------------------
(* Soundness and completeness of the feasible list.                        *)

\* The placements of every ordering of every 3-, 4- and 5-subset of the
\* inventory, as six slots with 1 in the empty ones.
Placements(gears) ==
    {<<p[1], 1, p[2], 1, p[3], 1>> : p \in Orderings(gears, 3)}
    \cup {<<p[1], p[2], 1, p[3], 1, p[4]>> : p \in Orderings(gears, 4)}
    \cup {<<p[1], 1, p[2], p[3], 1, p[4]>> : p \in Orderings(gears, 4)}
    \cup {<<p[1], p[2], p[4], p[3], p[5], 1>> : p \in Orderings(gears, 5)}

\* The predicates a placement has to satisfy, by role letter.
ReachOk(s) ==
    LET A == s[1]   B == s[2]   C == s[3]   D == s[4]   E == s[5]   F == s[6]
    IN  IF Topology(s) = "line" THEN check_reach_fit(<<A, A, C, C, E>>)
        ELSE IF Topology(s) = "dogleg" THEN check_reach_fit(<<A, B, D, D, F>>)
        ELSE IF Topology(s) = "flash" THEN check_reach_fit(<<A, A, C, D, F>>)
        ELSE check_reach_fit(<<A, B, D, C, E>>)

CentersOk(s) ==
    LET A == s[1]   B == s[2]   C == s[3]   D == s[4]   E == s[5]   F == s[6]
    IN  IF Topology(s) = "line" THEN check_centers_fit(<<A, C, C, E>>)
        ELSE IF Topology(s) = "dogleg" THEN check_centers_fit(<<B, D, D, F>>)
        ELSE IF Topology(s) = "flash" THEN check_centers_fit(<<A, C, D, F>>)
        ELSE check_centers_fit(<<B, D, C, E>>)

ClearancesOk(s) ==
    LET A == s[1]   B == s[2]   C == s[3]   D == s[4]   E == s[5]   F == s[6]
    IN  IF Topology(s) = "line" THEN TRUE
        ELSE IF Topology(s) = "dogleg" THEN check_spindle_cleared(A, B)
        ELSE IF Topology(s) = "flash" THEN
            check_spindle_cleared(2 * A + C, D) /\ check_lead_cleared(C, D, F)
        ELSE /\ check_spindle_cleared(A, B)
             /\ check_lead_cleared(D, C, E)
             /\ check_gear_cleared(A, B, C, D)

Feasible(s) ==
    /\ Topology(s) # "none"
    /\ s[1] >= 33
    /\ CentersOk(s)
    /\ ReachOk(s)
    /\ ClearancesOk(s)

Listed(s) == \E k \in 1..Len(fitting_sets) : Slots(fitting_sets[k]) = s

EnumerationDone ==
    args_check = NoCheck /\ pc \in {"dedup", "search", "report", "done", "error"}

\* C16: every entry of the feasible list, re-evaluated from its stored
\* slots, satisfies all the predicates of its topology; and once the
\* enumeration has ended, a placement of an ordering of a 3-, 4- or 5-subset
\* of the inventory is in the list exactly when it satisfies them, so that a
\* placement failing a single predicate is absent.
C16_ListIsExactlyTheFeasiblePlacements ==
    /\ \A k \in 1..Len(fitting_sets) : Feasible(Slots(fitting_sets[k]))
    /\ EnumerationDone =>
          \A s \in Placements(gears_available) : Listed(s) <=> Feasible(s)

\* The list is complete and not empty, and a placement that fails the reach
\* test only is missing from it.
C16_Witness ==
    /\ pc = "search"
    /\ fitting_sets # <<>>
    /\ \E s \in Placements(gears_available) :
          /\ Topology(s) = "dogleg"
          /\ s[1] >= 33 /\ CentersOk(s) /\ ClearancesOk(s)
          /\ ~ReachOk(s)
          /\ ~Listed(s)


----------------------------------------------------------------------------
(* The ranked list as a function of the inventory.                         *)

\* The tooth counts in ascending order.
RECURSIVE InsertTeeth(_, _)
InsertTeeth(t, s) ==
    IF s = <<>> THEN <<t>>
    ELSE IF t < Head(s) THEN <<t>> \o s
    ELSE <<Head(s)>> \o InsertTeeth(t, Tail(s))

RECURSIVE SortedTeeth(_)
SortedTeeth(s) ==
    IF s = <<>> THEN <<>> ELSE InsertTeeth(Head(s), SortedTeeth(Tail(s)))

\* The list a run with the inventory 'gears' ranks, with the machine
\* parameters and units of this run.
RankedList(gears) ==
    LET sets == all_possible_sets(gears)
    IN  Dedup(SortSets(Flatten([k \in 1..Len(sets) |-> FittingOf(sets[k])])))

Ranked == args_check = NoCheck /\ pc \in {"search", "report", "done", "error"}

\* C17: the ranked, deduplicated list depends only on the multiset of tooth
\* counts, the machine parameters and the units: a run whose data file lists
\* the gears in any order ranks the list that the run with the same gears in
\* ascending order ranks, entry by entry.
C17_RankingIgnoresInventoryOrder ==
    Ranked => fitting_sets = RankedList(SortedTeeth(gears_available))

\* A run whose gears are not listed in ascending order ranked a list in
\* which two different entries agree on pitch and standard deviation.
C17_Witness ==
    /\ pc = "search"
    /\ gears_available # SortedTeeth(gears_available)
    /\ \E a, b \in 1..Len(fitting_sets) :
          /\ a # b
          /\ fitting_sets[a][1] = fitting_sets[b][1]
          /\ fitting_sets[a][8] = fitting_sets[b][8]


----------------------------------------------------------------------------
(* tpi_box_gears.py: the gear sets of the TPI box (lines 37-117).          *)
(* tpi_box is the record of the script's position pc and of its globals    *)
(* O, P, Q, M, N, counter and all_sets.                                    *)

\* Some physical limits (lines 38-46).
no_snag == 4
S == 56
I == 127
max_O == 71
max_P == 171
max_M == 100
min_N == 20

\* 25.4/1024 inch (line 103).
inch_1024th == Frac(127, 5120)

\* Z_effective=S/P*I/M*N (line 100), exactly.
Z_effective(P, M, N) == Frac(S * I * N, P * M)

\* Z is a whole number of steps of q (both in lowest terms).
IsMultiple(Z, q) == q[2] % Z[2] = 0 /\ Z[1] % q[1] = 0

\* What the floating-point arithmetic of lines 100-104 leaves open.  The
\* float remainder Z_effective % (25.4/1024) of an exact multiple is either
\* just above 0 (the set is recorded) or wraps to just below 25.4/1024 (it
\* is not), according to the rounding of the quotient; and a Z_effective
\* exactly halfway between two six-decimal values prints as either.  A
\* value that is not a multiple is at least (25.4/1024)/(P*M) > 1e-8 above
\* 0, so it is never recorded.  A run is modelled under one of these
\* outcomes: wraps for no multiple, for the multiples found at an odd
\* counter, or for every multiple; halves printed up or down.
FloatOutcomes == [wraps : {"never", "odd", "always"}, half : {"up", "down"}]

Wraps(float, n) ==
    \/ float.wraps = "always"
    \/ float.wraps = "odd" /\ n % 2 = 1

\* math.isclose(Z_effective % (25.4/1024), 0, abs_tol = 1e-8) (line 103).
IsInchFractional(Z, float, n) == IsMultiple(Z, inch_1024th) /\ ~Wraps(float, n)

\* The first k decimals of rem/den as a number, and what remains.
RECURSIVE Decimals(_, _, _)
Decimals(rem, den, k) ==
    IF k = 0 THEN <<0, rem>>
    ELSE LET rest == Decimals((rem * 10) % den, den, k - 1)
         IN  <<((rem * 10) \div den) * 10 ^ (k - 1) + rest[1], rest[2]>>

\* float(f"{Z_effective:.6f}") (line 104): Z rounded to six decimals, held as
\* the whole number of millionths.
Rounded6(Z, float) ==
    LET whole == Z[1] \div Z[2]
        dec == Decimals(Z[1] % Z[2], Z[2], 6)
        up == \/ 2 * dec[2] > Z[2]
              \/ 2 * dec[2] = Z[2] /\ float.half = "up"
    IN  whole * 10 ^ 6 + dec[1] + (IF up THEN 1 ELSE 0)

\* The sort key of line 111: (x[0], -x[6]).
TpiKeyLess(x, y) ==
    IF x[1] # y[1] THEN x[1] < y[1] ELSE y[7] < x[7]

\* all_sets.sort(key=...) (line 111), a stable sort: the entry at position k
\* moves behind the entries with a smaller key and the earlier entries with
\* an equal key.
TpiRank(s, k) ==
    1 + Cardinality({m \in 1..Len(s) :
                        \/ TpiKeyLess(s[m], s[k])
                        \/ ~TpiKeyLess(s[k], s[m]) /\ m < k})

TpiSort(s) ==
    LET rank == [k \in 1..Len(s) |-> TpiRank(s, k)]
    IN  [j \in 1..Len(s) |-> s[CHOOSE k \in 1..Len(s) : rank[k] = j]]

\* A P range that starts no_snag lower.
P_first_low(O) == I + O - S

\* First value of the P range for O (line 87).
P_first(O) == I + O + no_snag - S

\* First value of the M range for Q (line 94).
M_first(Q) == Q + min_N - I

\* lathe_gears.py is not run.
LatheOff ==
    /\ pc = "off"
    /\ gears_available = <<>>
    /\ pitches = <<>>
    /\ pitch_unit = "mm"
    /\ leadscrew_unit = "mm"
    /\ spindle_teeth = 0
    /\ spindle_diameter = 0
    /\ leadscrew_pitch = 0
    /\ leadscrew_diameter = 0
    /\ max_centers = 0
    /\ min_out_dim = 0
    /\ gear_clearance = 0
    /\ output_format = "layout"
    /\ args_check = NoCheck
    /\ all_sets = <<>>
    /\ counter = 0
    /\ perms = 0
    /\ fitting_sets = <<>>
    /\ total_fitting_sets = 0
    /\ target = Frac(0, 1)
    /\ zero_error_exists = FALSE
    /\ i = 0
    /\ target_feedrates = <<>>
    /\ out = <<>>
    /\ big_and_small = NoReport
    /\ check_set = <<>>
    /\ fits = <<>>
    /\ error = ""

lathe == <<pc, gears_available, pitches, pitch_unit, leadscrew_unit,
           spindle_teeth, spindle_diameter, leadscrew_pitch, leadscrew_diameter,
           max_centers, min_out_dim, gear_clearance, output_format, args_check,
           all_sets, counter, perms, fitting_sets, total_fitting_sets,
           target, zero_error_exists, i, target_feedrates, out, big_and_small,
           check_set, fits, error>>

\* Lines 83-86: no sets, counter 0, the O loop at its first value.  'skipped'
\* counts the passes through the 'continue' of line 92.
TpiInit ==
    /\ LatheOff
    /\ \E f \in FloatOutcomes :
          tpi_box = [pc |-> "for_O", O |-> S + no_snag, P |-> 0, Q |-> 0,
                     M |-> 0, N |-> 0, counter |-> 0, all_sets |-> <<>>,
                     skipped |-> 0, float |-> f, error |-> ""]

\* for O in range(S+no_snag, max_O) (line 86): enter the P loop, or leave.
ForO ==
    /\ tpi_box.pc = "for_O"
    /\ tpi_box' =
          IF tpi_box.O < max_O
          THEN [tpi_box EXCEPT !.P = P_first(tpi_box.O), !.pc = "for_P"]
          ELSE [tpi_box EXCEPT !.pc = "sort"]
    /\ UNCHANGED lathe

\* for P in range((I+O+no_snag-S), max_P) (lines 87-94): Q follows; skip it
\* when below its minimum, else enter the M loop; at the end of the range,
\* the next O.
ForP ==
    /\ tpi_box.pc = "for_P"
    /\ tpi_box' =
          IF tpi_box.P < max_P
          THEN LET Q == S + tpi_box.P - tpi_box.O
               IN  IF Q < I + no_snag
                   THEN [tpi_box EXCEPT !.Q = Q, !.skipped = @ + 1, !.P = @ + 1]
                   ELSE [tpi_box EXCEPT !.Q = Q, !.M = M_first(Q), !.pc = "for_M"]
          ELSE [tpi_box EXCEPT !.O = @ + 1, !.pc = "for_O"]
    /\ UNCHANGED lathe

\* for M in range((Q+min_N-I),max_M) (lines 94-104): count, N follows, record
\* the set when Z_effective is inch-fractional; at the end of the range, the
\* next P.
ForM ==
    /\ tpi_box.pc = "for_M"
    /\ tpi_box' =
          IF tpi_box.M < max_M
          THEN LET P == tpi_box.P
                   M == tpi_box.M
                   N == M + I - tpi_box.Q
                   Z == Z_effective(P, M, N)
                   n == tpi_box.counter + 1
               IN  [tpi_box EXCEPT
                       !.counter = n,
                       !.N = N,
                       !.all_sets =
                           IF IsInchFractional(Z, tpi_box.float, n)
                           THEN Append(@, <<P, I, M, N, tpi_box.Q, tpi_box.O,
                                            Rounded6(Z, tpi_box.float)>>)
                           ELSE @,
                       !.M = M + 1]
          ELSE [tpi_box EXCEPT !.P = @ + 1, !.pc = "for_P"]
    /\ UNCHANGED lathe

\* Lines 107-117: sort the sets, log them, print the first one; all_sets[0]
\* of an empty list raises IndexError.
SortAndReport ==
    /\ tpi_box.pc = "sort"
    /\ tpi_box' =
          LET sorted == TpiSort(tpi_box.all_sets)
          IN  IF sorted = <<>>
              THEN [tpi_box EXCEPT !.pc = "error", !.error = "IndexError"]
              ELSE [tpi_box EXCEPT !.all_sets = sorted, !.pc = "done"]
    /\ UNCHANGED lathe

TpiNext ==
    \/ ForO
    \/ ForP
    \/ ForM
    \/ SortAndReport

TpiSpec == TpiInit /\ [][TpiNext]_vars

----------------------------------------------------------------------------
(* Properties of the TPI-box search.                                       *)

\* C18: every recorded gear set [P, I, M, N, Q, O, Z] satisfies Q = S + P - O
\* and N = M + I - Q with S = 56 and I = 127, and the physical bounds
\* S + no_snag <= O < max_O, P < max_P, Q >= I + no_snag, M < max_M and
\* N >= min_N; the 'continue' on Q < I + no_snag is never taken, the first
\* value of the P range guaranteeing it.
C18_RecordedSetsWithinLimits ==
    /\ S = 56 /\ I = 127
    /\ \A k \in 1..Len(tpi_box.all_sets) :
          LET x == tpi_box.all_sets[k]
              P == x[1]   M == x[3]   N == x[4]   Q == x[5]   O == x[6]
          IN  /\ x[2] = I
              /\ Q = S + P - O
              /\ N = M + I - Q
              /\ S + no_snag <= O /\ O < max_O
              /\ P < max_P
              /\ Q >= I + no_snag
              /\ M < max_M
              /\ N >= min_N
    /\ tpi_box.skipped = 0
    /\ tpi_box.pc \in {"for_M", "sort", "done", "error"} =>
          tpi_box.Q >= I + no_snag

\* The run ended with its sets sorted, among them one with the smallest Q
\* and one with the smallest N.
C18_Witness ==
    /\ tpi_box.pc = "done"
    /\ tpi_box.counter > 0
    /\ \E k \in 1..Len(tpi_box.all_sets) : tpi_box.all_sets[k][5] = I + no_snag
    /\ \E k \in 1..Len(tpi_box.all_sets) : tpi_box.all_sets[k][4] = min_N

=============================================================================
